---- MODULE Spec2Model ----
(***************************************************************************)
(* video-flow: batch transcoding of a directory tree with ffmpeg.          *)
(* Model of src/encoder.py (time_to_seconds, get_duration,                 *)
(* convert_video_file, process_directory) and of the exit of src/main.py.  *)
(*                                                                         *)
(* Text is modelled as sequences of one-character strings, Python floats   *)
(* as IEEE-754 binary64 values (round to nearest, ties to even), the       *)
(* external prober and encoder as deterministic functions of the file      *)
(* they are run on, and the two pipes of the encoder as bounded buffers.   *)
(***************************************************************************)
EXTENDS Integers, Sequences, FiniteSets, TLC

(***************************************************************************)
(* Python float: binary64.  A non-negative float below 2^30 that is 0 or   *)
(* at least 2^-7 is a multiple of 2^-FracBits; it is held exactly as the   *)
(* integer x * 2^FracBits, written in NLimbs limbs of LimbBits bits, least *)
(* significant first.  Every operation computes the exact result and then  *)
(* rounds it to MantBits significant bits.                                 *)
(***************************************************************************)
MantBits == 53
FracBits == 60
LimbBits == 15
NLimbs == 6
LimbBase == 2^LimbBits

Tup(f) == SubSeq(f, 1, NLimbs)

FZero == Tup([i \in 1..NLimbs |-> 0])

\* the integer k, 0 <= k < 2^30, as a float
FromInt(k) ==
  Tup([i \in 1..NLimbs |->
        IF i = (FracBits \div LimbBits) + 1 THEN k % LimbBase
        ELSE IF i = (FracBits \div LimbBits) + 2 THEN k \div LimbBase
        ELSE 0])

BigAdd(a, b) ==
  LET c[i \in 0..NLimbs] ==
        IF i = 0 THEN 0 ELSE (a[i] + b[i] + c[i-1]) \div LimbBase
  IN  Tup([i \in 1..NLimbs |-> (a[i] + b[i] + c[i-1]) % LimbBase])

\* a - b, for a >= b
BigSub(a, b) ==
  LET w[i \in 0..NLimbs] ==
        IF i = 0 THEN 0 ELSE IF a[i] - b[i] - w[i-1] < 0 THEN 1 ELSE 0
  IN  Tup([i \in 1..NLimbs |-> (a[i] - b[i] - w[i-1]) % LimbBase])

BigLess(a, b) ==
  \E i \in 1..NLimbs : a[i] < b[i] /\ \A j \in (i+1)..NLimbs : a[j] = b[j]

BitLen(a) ==
  IF a = FZero THEN 0
  ELSE LET top == CHOOSE i \in 1..NLimbs :
                    a[i] # 0 /\ \A j \in (i+1)..NLimbs : a[j] = 0
           w == CHOOSE j \in 1..LimbBits : a[top] < 2^j /\ a[top] >= 2^(j-1)
       IN  (top - 1) * LimbBits + w

BigPow2(k) ==
  Tup([i \in 1..NLimbs |->
        IF i = (k \div LimbBits) + 1 THEN 2^(k % LimbBits) ELSE 0])

\* a mod 2^k
BigLow(a, k) ==
  Tup([i \in 1..NLimbs |->
        IF i < (k \div LimbBits) + 1 THEN a[i]
        ELSE IF i = (k \div LimbBits) + 1 THEN a[i] % 2^(k % LimbBits)
        ELSE 0])

BigBit(a, k) == (a[(k \div LimbBits) + 1] \div 2^(k % LimbBits)) % 2

\* a * k for a small integer k (k < 2^15), the product below 2^(NLimbs*LimbBits)
BigMulSmall(a, k) ==
  LET c[i \in 0..NLimbs] ==
        IF i = 0 THEN 0 ELSE (a[i] * k + c[i-1]) \div LimbBase
  IN  Tup([i \in 1..NLimbs |-> (a[i] * k + c[i-1]) % LimbBase])

\* quotient and remainder of a by a small integer d (d < 2^15)
BigDivSmall(a, d) ==
  LET r[i \in 1..(NLimbs+1)] ==
        IF i = NLimbs + 1 THEN 0 ELSE (r[i+1] * LimbBase + a[i]) % d
  IN  [q |-> Tup([i \in 1..NLimbs |-> (r[i+1] * LimbBase + a[i]) \div d]),
       r |-> r[1]]

\* the exact value a, plus a non-zero part below its last bit when sticky,
\* rounded to nearest with ties to even
RoundNearest(a, sticky) ==
  LET k == BitLen(a) - MantBits IN
  IF k <= 0 THEN a
  ELSE LET low == BigLow(a, k)
           half == BigPow2(k - 1)
           trunc == BigSub(a, low)
           up == \/ BigLess(half, low)
                 \/ low = half /\ (sticky \/ BigBit(a, k) = 1)
       IN  IF up THEN BigAdd(trunc, BigPow2(k)) ELSE trunc

\* float + float
FAdd(x, y) == RoundNearest(BigAdd(x, y), FALSE)
\* float - float, for x >= y
FSub(x, y) == RoundNearest(BigSub(x, y), FALSE)
\* float * k for an integer constant k
FMul(x, k) == RoundNearest(BigMulSmall(x, k), FALSE)
\* float / d for an integer constant d
FDiv(x, d) ==
  LET qr == BigDivSmall(x, d) IN RoundNearest(qr.q, qr.r # 0)
FLess(x, y) == BigLess(x, y)
FLeq(x, y) == ~BigLess(y, x)
\* Python's min(x, y): y if y < x, else x
FMin(x, y) == IF FLess(y, x) THEN y ELSE x

(***************************************************************************)
(* Text: a str is a sequence of one-character strings.                     *)
(***************************************************************************)
DigitChars == <<"0", "1", "2", "3", "4", "5", "6", "7", "8", "9">>
UpperChars ==
  <<"A", "B", "C", "D", "E", "F", "G", "H", "I", "J", "K", "L", "M",
    "N", "O", "P", "Q", "R", "S", "T", "U", "V", "W", "X", "Y", "Z">>
LowerChars ==
  <<"a", "b", "c", "d", "e", "f", "g", "h", "i", "j", "k", "l", "m",
    "n", "o", "p", "q", "r", "s", "t", "u", "v", "w", "x", "y", "z">>

IsDigit(ch) == \E i \in 1..Len(DigitChars) : DigitChars[i] = ch
DigitVal(ch) == (CHOOSE i \in 1..Len(DigitChars) : DigitChars[i] = ch) - 1

\* str.lower()
Lower(s) ==
  [i \in 1..Len(s) |->
     IF \E k \in 1..Len(UpperChars) : UpperChars[k] = s[i]
     THEN LowerChars[CHOOSE k \in 1..Len(UpperChars) : UpperChars[k] = s[i]]
     ELSE s[i]]

\* str.endswith(suffix)
EndsWith(s, suffix) ==
  /\ Len(suffix) <= Len(s)
  /\ SubSeq(s, Len(s) - Len(suffix) + 1, Len(s)) = suffix

\* str(n) for an integer n >= 0
RECURSIVE IntToStr(_)
IntToStr(n) ==
  IF n < 10 THEN <<DigitChars[n + 1]>>
  ELSE IntToStr(n \div 10) \o <<DigitChars[(n % 10) + 1]>>

\* the value of a string of digits
RECURSIVE DigitsVal(_)
DigitsVal(s) ==
  IF s = <<>> THEN 0
  ELSE 10 * DigitsVal(SubSeq(s, 1, Len(s) - 1)) + DigitVal(s[Len(s)])

\* str.split(sep) for a one-character separator
RECURSIVE Split(_, _)
Split(s, sep) ==
  IF \A i \in 1..Len(s) : s[i] # sep THEN <<s>>
  ELSE LET p == CHOOSE i \in 1..Len(s) :
                  s[i] = sep /\ \A j \in 1..(i-1) : s[j] # sep
       IN  <<SubSeq(s, 1, p - 1)>> \o Split(SubSeq(s, p + 1, Len(s)), sep)

AllDigits(s) == s # <<>> /\ \A i \in 1..Len(s) : IsDigit(s[i])

\* float(s) for the literals the model feeds it: digits, or digits "." digits.
\* ok is FALSE where Python raises ValueError (any other text of the model).
PyFloat(s) ==
  LET parts == Split(s, ".")
      RECURSIVE Div10(_, _, _)
      Div10(a, k, sticky) ==
        IF k = 0 THEN RoundNearest(a, sticky)
        ELSE LET qr == BigDivSmall(a, 10)
             IN  Div10(qr.q, k - 1, sticky \/ qr.r # 0)
  IN  IF Len(parts) = 1 /\ AllDigits(parts[1])
      THEN [ok |-> TRUE, val |-> FromInt(DigitsVal(parts[1]))]
      ELSE IF Len(parts) = 2 /\ AllDigits(parts[1]) /\ AllDigits(parts[2])
      THEN [ok |-> TRUE,
            val |-> Div10(FromInt(DigitsVal(parts[1] \o parts[2])),
                          Len(parts[2]), FALSE)]
      ELSE [ok |-> FALSE, val |-> FZero]

(***************************************************************************)
(* Program constants (src/encoder.py, lines 10-26).                        *)
(***************************************************************************)
DEFAULT_CRF_VALUE == 20
DEFAULT_PRESET == "medium"
NVENC_CQP_VALUE == 23
NVENC_PRESET == "medium"
AUDIO_CODEC == "aac"
AUDIO_BITRATE == "192k"
INPUT_EXTENSIONS ==
  << <<".", "m", "o", "v">>, <<".", "m", "p", "4">>,
     <<".", "a", "v", "i">>, <<".", "m", "k", "v">> >>
OUTPUT_EXTENSION == <<".", "m", "p", "4">>
FFMPEG_PATH == "ffmpeg"
FFPROBE_PATH == "ffprobe"

\* TIME_REGEX matched at position p of the line:
\* 'time=' then \d{2} ':' \d{2} ':' \d{2} '.' \d{2}
TimeRegexAt(line, p) ==
  /\ p + 15 <= Len(line)
  /\ SubSeq(line, p, p + 4) = <<"t", "i", "m", "e", "=">>
  /\ \A k \in {5, 6, 8, 9, 11, 12, 14, 15} : IsDigit(line[p + k])
  /\ line[p + 7] = ":"
  /\ line[p + 10] = ":"
  /\ line[p + 13] = "."

\* re.search(TIME_REGEX, line): the leftmost match and its four groups
TIME_REGEX(line) ==
  IF \E p \in 1..Len(line) : TimeRegexAt(line, p)
  THEN LET p == CHOOSE q \in 1..Len(line) :
                  TimeRegexAt(line, q) /\ \A r \in 1..(q-1) : ~TimeRegexAt(line, r)
       IN  [found |-> TRUE,
            group |-> << SubSeq(line, p + 5, p + 6), SubSeq(line, p + 8, p + 9),
                         SubSeq(line, p + 11, p + 12), SubSeq(line, p + 14, p + 15) >>]
  ELSE [found |-> FALSE, group |-> <<>>]

\* time_to_seconds with the last field taken for milliseconds
time_to_seconds_millis(t_str) ==
  LET parts == Split(t_str, ":") IN
  IF Len(parts) = 3
  THEN LET s_ms == Split(parts[3], ".")
           h == PyFloat(parts[1])
           m == PyFloat(parts[2])
       IN  IF Len(s_ms) # 2 THEN FZero
           ELSE LET s == PyFloat(s_ms[1])
                    ms == PyFloat(s_ms[2])
                IN  IF ~(h.ok /\ m.ok /\ s.ok /\ ms.ok) THEN FZero
                    ELSE FAdd(FAdd(FAdd(FMul(h.val, 3600), FMul(m.val, 60)),
                                   s.val),
                              FDiv(ms.val, 1000))
  ELSE FZero

\* time_to_seconds(t_str): "HH:MM:SS.ms" to seconds; 0.0 on any exception
time_to_seconds(t_str) ==
  LET parts == Split(t_str, ":") IN
  IF Len(parts) = 3
  THEN LET s_ms == Split(parts[3], ".")
           h == PyFloat(parts[1])
           m == PyFloat(parts[2])
       IN  IF Len(s_ms) # 2 THEN FZero                  \* unpacking fails
           ELSE LET s == PyFloat(s_ms[1])
                    ms == PyFloat(s_ms[2])
                IN  IF ~(h.ok /\ m.ok /\ s.ok /\ ms.ok) THEN FZero
                    ELSE FAdd(FAdd(FAdd(FMul(h.val, 3600), FMul(m.val, 60)),
                                   s.val),
                              FDiv(ms.val, 100))
  ELSE FZero

\* the f-string of line 168 built from the match groups
TimeString(g) == g[1] \o <<":">> \o g[2] \o <<":">> \o g[3] \o <<".">> \o g[4]

(***************************************************************************)
(* Paths, profile and argument list (convert_video_file, lines 71-139).    *)
(***************************************************************************)
\* a literal argument, and an argument computed from text
Lit(s) == [lit |-> s, text |-> <<>>]
Txt(t) == [lit |-> "", text |-> t]

\* Path.stem: the name without its last suffix
Stem(name) ==
  LET dots == {i \in 1..Len(name) : name[i] = "."} IN
  IF dots = {} THEN name
  ELSE LET i == CHOOSE d \in dots : \A e \in dots : e <= d
       IN  IF 1 < i /\ i < Len(name) THEN SubSeq(name, 1, i - 1) ELSE name

\* lines 72-86: the settings of the chosen mode
Profile(use_gpu) ==
  IF use_gpu
  THEN [VIDEO_CODEC |-> "hevc_nvenc",
        PRESET |-> NVENC_PRESET,
        QUALITY_PARAM |-> <<Lit("-cq"), Txt(IntToStr(NVENC_CQP_VALUE))>>,
        TAG |-> <<"N", "V", "E", "N", "C", "_", "C", "Q", "P">>
                  \o IntToStr(NVENC_CQP_VALUE),
        EXTRA_OPTIONS |-> <<Lit("-rc"), Lit("vbr"), Lit("-b:v"), Lit("0k"),
                            Lit("-qmin"), Lit("0"), Lit("-qmax"), Lit("51")>>]
  ELSE [VIDEO_CODEC |-> "libx265",
        PRESET |-> DEFAULT_PRESET,
        QUALITY_PARAM |-> <<Lit("-crf"), Txt(IntToStr(DEFAULT_CRF_VALUE))>>,
        TAG |-> <<"C", "R", "F">> \o IntToStr(DEFAULT_CRF_VALUE),
        EXTRA_OPTIONS |-> <<>>]

\* line 96: f"{input_path.stem}_{TAG}{OUTPUT_EXTENSION}"
output_filename(name, use_gpu) ==
  Stem(name) \o <<"_">> \o Profile(use_gpu).TAG \o OUTPUT_EXTENSION

\* the output_dir argument of the run
OUTPUT_DIR == <<"o", "u", "t">>

\* the argument list with an audio bitrate of its own in hardware mode
CommandOwnAudio(entry, use_gpu) ==
  LET pr == Profile(use_gpu) IN
  <<Lit(FFMPEG_PATH), Lit("-i"), Txt(entry.dir \o <<"/">> \o entry.name),
    Lit("-map_metadata"), Lit("0"), Lit("-c:v"), Lit(pr.VIDEO_CODEC)>>
  \o pr.QUALITY_PARAM
  \o <<Lit("-preset"), Lit(pr.PRESET)>>
  \o pr.EXTRA_OPTIONS
  \o <<Lit("-tag:v"), Lit("hvc1")>>
  \o <<Lit("-c:a"), Lit(AUDIO_CODEC), Lit("-b:a"),
       Lit(IF use_gpu THEN "128k" ELSE AUDIO_BITRATE)>>
  \o <<Lit("-stats")>>
  \o <<Txt(<<"o", "u", "t", "/">> \o output_filename(entry.name, use_gpu))>>

\* lines 108-139: the encoder's argument list
Command(entry, use_gpu) ==
  LET pr == Profile(use_gpu) IN
  <<Lit(FFMPEG_PATH), Lit("-i"), Txt(entry.dir \o <<"/">> \o entry.name),
    Lit("-map_metadata"), Lit("0"), Lit("-c:v"), Lit(pr.VIDEO_CODEC)>>
  \o pr.QUALITY_PARAM
  \o <<Lit("-preset"), Lit(pr.PRESET)>>
  \o pr.EXTRA_OPTIONS
  \o <<Lit("-tag:v"), Lit("hvc1")>>
  \o <<Lit("-c:a"), Lit(AUDIO_CODEC), Lit("-b:a"), Lit(AUDIO_BITRATE)>>
  \o <<Lit("-stats")>>
  \o <<Txt(<<"o", "u", "t", "/">> \o output_filename(entry.name, use_gpu))>>

\* the test of line 216 without lower()
IsInputFileCaseSensitive(filename) ==
  \E k \in 1..Len(INPUT_EXTENSIONS) : EndsWith(filename, INPUT_EXTENSIONS[k])

\* line 216: filename.lower().endswith(tuple(INPUT_EXTENSIONS))
IsInputFile(filename) ==
  \E k \in 1..Len(INPUT_EXTENSIONS) : EndsWith(Lower(filename), INPUT_EXTENSIONS[k])

(***************************************************************************)
(* The prober (get_duration, lines 49-66).  What ffprobe answers for a     *)
(* file is [rc, stdout]; stdout is the JSON value json.loads makes of it,  *)
(* or "invalid" when it is no JSON text.  A JSON value is [t, v]: "str"    *)
(* with its text, "null", "list", or "obj" with its members <<key, value>>.*)
(***************************************************************************)
JStr(text) == [t |-> "str", v |-> text]
JNull == [t |-> "null", v |-> <<>>]
JList == [t |-> "list", v |-> <<>>]
JObj(members) == [t |-> "obj", v |-> members]
JInvalid == [t |-> "invalid", v |-> <<>>]

\* value[key] for a str key: KeyError on a dict without it, TypeError on
\* anything that is not a dict
PyGetItem(value, key) ==
  IF value.t # "obj" THEN [exc |-> "TypeError", val |-> JNull]
  ELSE IF \A i \in 1..Len(value.v) : value.v[i][1] # key
       THEN [exc |-> "KeyError", val |-> JNull]
       ELSE [exc |-> "",
             val |-> value.v[CHOOSE i \in 1..Len(value.v) :
                                /\ value.v[i][1] = key
                                /\ \A j \in (i+1)..Len(value.v) : value.v[j][1] # key][2]]

\* float(value): of a str its literal (ValueError when it is none), TypeError
\* on null, a list or a dict
PyFloatOf(value) ==
  IF value.t = "str"
  THEN LET f == PyFloat(value.v)
       IN  [exc |-> IF f.ok THEN "" ELSE "ValueError", val |-> f.val]
  ELSE [exc |-> "TypeError", val |-> FZero]

\* lines 52-63, the body of the try: the duration, or the exception raised
ProbeDuration(ffprobe_found, answer) ==
  IF ~ffprobe_found THEN [exc |-> "FileNotFoundError", val |-> FZero]
  ELSE IF answer.rc # 0 THEN [exc |-> "CalledProcessError", val |-> FZero]
  ELSE IF answer.stdout.t = "invalid" THEN [exc |-> "ValueError", val |-> FZero]
  ELSE LET fmt == PyGetItem(answer.stdout, "format") IN
       IF fmt.exc # "" THEN [exc |-> fmt.exc, val |-> FZero]
       ELSE LET dur == PyGetItem(fmt.val, "duration") IN
            IF dur.exc # "" THEN [exc |-> dur.exc, val |-> FZero]
            ELSE PyFloatOf(dur.val)

\* the handler of line 64 without FileNotFoundError
GetDurationCatchesNoLaunchError == {"CalledProcessError", "KeyError", "ValueError"}

\* line 64: the exceptions get_duration handles
GetDurationCatches ==
  {"CalledProcessError", "FileNotFoundError", "KeyError", "ValueError"}

\* get_duration: the value returned, or the exception that leaves it;
\* printed says whether line 65 printed its [ERROR]
get_duration(ffprobe_found, answer) ==
  LET d == ProbeDuration(ffprobe_found, answer) IN
  IF d.exc = "" THEN [exc |-> "", val |-> d.val, printed |-> FALSE]
  ELSE IF d.exc \in GetDurationCatches
       THEN [exc |-> "", val |-> FZero, printed |-> TRUE]
       ELSE [exc |-> d.exc, val |-> FZero, printed |-> FALSE]

\* the check of line 91 left out
DurationUnknownNever(total_duration) == FALSE

\* line 91: total_duration == 0.0
DurationUnknown(total_duration) == total_duration = FZero

\* the check of line 101 left out
OutputExistsNever(files, name) == FALSE

\* line 101: output_path.exists()
OutputExists(files, name) == name \in DOMAIN files

\* lines 172-176: the value of pbar.n after a matched line
ProgressAfter(n, current_seconds, total_duration) ==
  LET clamped_seconds == FMin(current_seconds, total_duration) IN
  IF FLess(n, clamped_seconds)
  THEN FAdd(n, FSub(clamped_seconds, n))     \* pbar.update(clamped - pbar.n)
  ELSE n

(***************************************************************************)
(* State.                                                                  *)
(*   world       what the run is given and does not change: the files the  *)
(*               walk of input_dir yields, in order (tree), what ffprobe   *)
(*               answers and what ffmpeg does for each (media), whether    *)
(*               the two executables are found, the mode, whether          *)
(*               input_dir is a directory                                  *)
(*   out_dir     the output directory: whether it exists, and its files    *)
(*               with the encoder run that wrote each ([run, idx]; run 0   *)
(*               is a file that was there before the first run)            *)
(*   pc, idx     where process_directory / convert_video_file stands, and  *)
(*               the position of the walk                                  *)
(*   run         the number of the run (the same command line run again)   *)
(*   total_duration, pbar_n, full_stderr   locals of convert_video_file    *)
(*   shown       the values pbar.n took, one per update, in this job       *)
(*   procs       the encoder subprocesses of this run, by the position of  *)
(*               their file: place in the script, running or exited, the   *)
(*               stderr pipe (lines in flight) and stdout pipe (chunks)    *)
(*   log         what the program printed                                  *)
(*   events      history: calls of convert_video_file ("call"), prober     *)
(*               runs ("probe", with the exception the try body raised),   *)
(*               existence checks ("check", with what the file system      *)
(*               held), encoder launches ("spawn") and launches that found *)
(*               no executable ("notfound")                                *)
(*   seen_out    history: the files of out_dir when this run began         *)
(*   exit_status of the interpreter: -1 while it runs                      *)
(***************************************************************************)
VARIABLES world, out_dir, pc, idx, run, total_duration, pbar_n, full_stderr,
          shown, procs, log, events, seen_out, exit_status

vars == <<world, out_dir, pc, idx, run, total_duration, pbar_n, full_stderr,
          shown, procs, log, events, seen_out, exit_status>>

jobVars == <<total_duration, pbar_n, full_stderr, shown>>

\* capacity of the stderr pipe, in lines, and of the stdout pipe, in chunks
ErrPipeCap == 1
OutPipeCap == 1
\* the command line is run at most this many times
MaxRuns == 2

CurEntry == world.tree[idx]
CurMedia == world.media[idx]
\* the existence check made on the input's own name
CurOutputAsInputName == CurEntry.name

\* lines 96-97: the name of the job's output file in output_dir
CurOutput == output_filename(CurEntry.name, world.use_gpu)

LogLine(tag, text) == [run |-> run, idx |-> idx, tag |-> tag, text |-> text]
Event(ev, info) == [run |-> run, idx |-> idx, ev |-> ev, info |-> info]

\* an undecodable byte sequence in the encoder's output
BadByte == "\\xff"
Decodable(line) == \A i \in 1..Len(line) : line[i] # BadByte

\* the file system: the output file of the file at position i is in out_dir
OutputPresent(i) ==
  output_filename(world.tree[i].name, world.use_gpu) \in DOMAIN out_dir.files

\* convert_video_file returns to the loop of process_directory
Return ==
  /\ pc' = "walk"
  /\ idx' = idx + 1
  /\ total_duration' = FZero
  /\ pbar_n' = FZero
  /\ full_stderr' = <<>>
  /\ shown' = <<>>

\* process_directory without the test of line 205
StartWithoutDirCheck ==
  /\ pc = "start"
  /\ log' = Append(log, [LogLine("--- search", <<>>) EXCEPT !.idx = 0])
  /\ pc' = "walk"
  /\ UNCHANGED <<world, out_dir, idx, run, jobVars, procs, events, seen_out,
                 exit_status>>

\* process_directory, lines 205-211
Start ==
  /\ pc = "start"
  /\ \/ /\ ~world.input_is_dir
        /\ log' = Append(log, [LogLine("[FATAL ERROR] input", <<>>) EXCEPT !.idx = 0])
        /\ pc' = "done"
        /\ exit_status' = 0
     \/ /\ world.input_is_dir
        /\ log' = Append(log, [LogLine("--- search", <<>>) EXCEPT !.idx = 0])
        /\ pc' = "walk"
        /\ UNCHANGED exit_status
  /\ UNCHANGED <<world, out_dir, idx, run, jobVars, procs, events, seen_out>>

\* process_directory, lines 213-221: one step of the two loops
Walk ==
  /\ pc = "walk"
  /\ \/ /\ idx > Len(world.tree)
        /\ log' = Append(log, [LogLine("--- complete", <<>>) EXCEPT !.idx = 0])
        /\ pc' = "done"
        /\ exit_status' = 0
        /\ UNCHANGED <<idx, events>>
     \/ /\ idx <= Len(world.tree)
        /\ ~IsInputFile(CurEntry.name)
        /\ idx' = idx + 1
        /\ UNCHANGED <<pc, log, events, exit_status>>
     \/ /\ idx <= Len(world.tree)
        /\ IsInputFile(CurEntry.name)
        /\ events' = Append(events, Event("call", ""))
        /\ pc' = "convert"
        /\ UNCHANGED <<idx, log, exit_status>>
  /\ UNCHANGED <<world, out_dir, run, jobVars, procs, seen_out>>

\* convert_video_file, lines 72-86
Convert ==
  /\ pc = "convert"
  /\ log' = Append(log, LogLine("[INFO]", <<Lit(Profile(world.use_gpu).VIDEO_CODEC)>>))
  /\ pc' = "probe"
  /\ UNCHANGED <<world, out_dir, idx, run, jobVars, procs, events, seen_out,
                 exit_status>>

\* the probe with the mkdir of line 99 made before it
ProbeAfterMkdir ==
  /\ pc = "probe"
  /\ LET r == get_duration(world.ffprobe_found, CurMedia.answer)
         raised == ProbeDuration(world.ffprobe_found, CurMedia.answer).exc
         said == IF r.printed THEN <<LogLine("[ERROR] FFprobe", <<Lit(raised)>>)>>
                 ELSE <<>>
     IN  /\ events' = Append(events, Event("probe", raised))
         /\ \/ /\ r.exc # ""                 \* leaves convert_video_file and the loop
               /\ pc' = "crashed"
               /\ exit_status' = 1
               /\ UNCHANGED <<idx, jobVars, log>>
            \/ /\ r.exc = ""
               /\ DurationUnknown(r.val)
               /\ log' = log \o said \o <<LogLine("[SKIP] unknown", <<>>)>>
               /\ Return
               /\ UNCHANGED exit_status
            \/ /\ r.exc = ""
               /\ ~DurationUnknown(r.val)
               /\ log' = log \o said
               /\ total_duration' = r.val
               /\ pc' = "exists"
               /\ UNCHANGED <<idx, pbar_n, full_stderr, shown, exit_status>>
  /\ out_dir' = [out_dir EXCEPT !.exists = TRUE]
  /\ UNCHANGED <<world, run, procs, seen_out>>

\* convert_video_file, lines 89-93, with get_duration
Probe ==
  /\ pc = "probe"
  /\ LET r == get_duration(world.ffprobe_found, CurMedia.answer)
         raised == ProbeDuration(world.ffprobe_found, CurMedia.answer).exc
         said == IF r.printed THEN <<LogLine("[ERROR] FFprobe", <<Lit(raised)>>)>>
                 ELSE <<>>
     IN  /\ events' = Append(events, Event("probe", raised))
         /\ \/ /\ r.exc # ""                 \* leaves convert_video_file and the loop
               /\ pc' = "crashed"
               /\ exit_status' = 1
               /\ UNCHANGED <<idx, jobVars, log>>
            \/ /\ r.exc = ""
               /\ DurationUnknown(r.val)
               /\ log' = log \o said \o <<LogLine("[SKIP] unknown", <<>>)>>
               /\ Return
               /\ UNCHANGED exit_status
            \/ /\ r.exc = ""
               /\ ~DurationUnknown(r.val)
               /\ log' = log \o said
               /\ total_duration' = r.val
               /\ pc' = "exists"
               /\ UNCHANGED <<idx, pbar_n, full_stderr, shown, exit_status>>
  /\ UNCHANGED <<world, out_dir, run, procs, seen_out>>

\* convert_video_file, lines 95-105
CheckOutput ==
  /\ pc = "exists"
  /\ out_dir' = [out_dir EXCEPT !.exists = TRUE]          \* mkdir(exist_ok=True)
  /\ events' = Append(events, Event("check", IF OutputPresent(idx) THEN "present"
                                              ELSE "absent"))
  /\ \/ /\ OutputExists(out_dir.files, CurOutput)
        /\ log' = Append(log, LogLine("[SKIP] exists", CurOutput))
        /\ Return
     \/ /\ ~OutputExists(out_dir.files, CurOutput)
        /\ log' = Append(log, LogLine("[START]", CurEntry.name))
        /\ pc' = "launch"
        /\ UNCHANGED <<idx, jobVars>>
  /\ UNCHANGED <<world, run, procs, seen_out, exit_status>>

\* convert_video_file, lines 107-154 and 196-198
Launch ==
  /\ pc = "launch"
  /\ \/ /\ ~world.ffmpeg_found                             \* FileNotFoundError
        /\ events' = Append(events, Event("notfound", ""))
        /\ log' = Append(log, LogLine("[FATAL ERROR] ffmpeg", <<>>))
        /\ Return
        /\ UNCHANGED procs
     \/ /\ world.ffmpeg_found
        /\ events' = Append(events, Event("spawn", ""))
        /\ procs' = (idx :> [pos |-> 1, state |-> "running", err |-> <<>>,
                             out |-> 0, orphan |-> FALSE]) @@ procs
        /\ pbar_n' = FZero
        /\ full_stderr' = <<>>
        /\ shown' = <<>>
        /\ pc' = "drain"
        /\ UNCHANGED <<idx, total_duration, log>>
  /\ UNCHANGED <<world, out_dir, run, seen_out, exit_status>>

\* a readline that takes an empty pipe for the end of the stream
EndOfStreamOnEmptyPipe(p) == p.err = <<>>

\* lines 157-159: readline returns '' when the pipe is empty and its write
\* end is closed, which the encoder's exit does
EndOfStream(p) == p.err = <<>> /\ p.state = "exited"

\* convert_video_file, lines 155-177 and 199-200: one readline and its handling
ReadLine ==
  /\ pc = "drain"
  /\ \/ /\ procs[idx].err # <<>>
        /\ Decodable(Head(procs[idx].err))
        /\ LET line == Head(procs[idx].err)
               match == TIME_REGEX(line)
               n == IF match.found
                    THEN ProgressAfter(pbar_n,
                                       time_to_seconds(TimeString(match.group)),
                                       total_duration)
                    ELSE pbar_n
           IN  /\ full_stderr' = Append(full_stderr, line)
               /\ pbar_n' = n
               /\ shown' = IF n # pbar_n THEN Append(shown, n) ELSE shown
        /\ procs' = [procs EXCEPT ![idx].err = Tail(@)]
        /\ UNCHANGED <<pc, idx, total_duration, log>>
     \/ /\ procs[idx].err # <<>>                   \* UnicodeDecodeError
        /\ ~Decodable(Head(procs[idx].err))
        /\ log' = Append(log, LogLine("[ERROR] unexpected", <<>>))
        /\ procs' = [procs EXCEPT ![idx].err = Tail(@), ![idx].orphan = TRUE]
        /\ Return
     \/ /\ EndOfStream(procs[idx])
        /\ pc' = "wait"
        /\ UNCHANGED <<idx, jobVars, procs, log>>
  /\ UNCHANGED <<world, out_dir, run, events, seen_out, exit_status>>

\* convert_video_file, lines 179-193
Wait ==
  /\ pc = "wait"
  /\ procs[idx].state = "exited"
  /\ \/ /\ CurMedia.rc = 0
        /\ log' = Append(log, LogLine("[SUCCESS]", CurOutput))
     \/ /\ CurMedia.rc # 0
        /\ log' = log \o <<LogLine("[ERROR] failed", CurEntry.name),
                           LogLine("command", Command(CurEntry, world.use_gpu)),
                           LogLine("stderr", full_stderr)>>
  /\ Return
  /\ UNCHANGED <<world, out_dir, run, procs, events, seen_out, exit_status>>

\* the interpreter has ended: the read ends of the pipes are closed
ParentGone == pc \in {"done", "crashed"}

\* one step of the encoder subprocess started for the file at position i
EncoderStep(i) ==
  /\ i \in DOMAIN procs
  /\ procs[i].state = "running"
  /\ LET p == procs[i]
         script == world.media[i].script
         op == IF p.pos <= Len(script) THEN script[p.pos].op ELSE "exit"
         name == output_filename(world.tree[i].name, world.use_gpu)
     IN  \/ /\ op = "exit"
            /\ procs' = [procs EXCEPT ![i].state = "exited"]
            /\ UNCHANGED out_dir
         \/ /\ op = "create"
            /\ out_dir' = [out_dir EXCEPT
                             !.files = (name :> [run |-> run, idx |-> i]) @@ @]
            /\ procs' = [procs EXCEPT ![i].pos = @ + 1]
         \/ /\ op = "err"
            /\ ~ParentGone
            /\ Len(p.err) < ErrPipeCap
            /\ procs' = [procs EXCEPT ![i].err = Append(@, script[p.pos].line),
                                      ![i].pos = @ + 1]
            /\ UNCHANGED out_dir
         \/ /\ op = "out"
            /\ ~ParentGone
            /\ p.out < OutPipeCap
            /\ procs' = [procs EXCEPT ![i].out = @ + 1, ![i].pos = @ + 1]
            /\ UNCHANGED out_dir
         \/ /\ op \in {"err", "out"}                  \* SIGPIPE
            /\ ParentGone
            /\ procs' = [procs EXCEPT ![i].state = "exited"]
            /\ UNCHANGED out_dir
  /\ UNCHANGED <<world, pc, idx, run, jobVars, log, events, seen_out, exit_status>>

Encoder == \E i \in 1..Len(world.tree) : EncoderStep(i)

\* the same command line is run again, nothing else having changed
Rerun ==
  /\ ParentGone
  /\ run < MaxRuns
  /\ \A i \in DOMAIN procs : procs[i].state = "exited"
  /\ run' = run + 1
  /\ pc' = "start"
  /\ idx' = 1
  /\ procs' = <<>>
  /\ seen_out' = DOMAIN out_dir.files
  /\ exit_status' = -1
  /\ UNCHANGED <<world, out_dir, jobVars, log, events>>

Next ==
  \/ Start
  \/ Walk
  \/ Convert
  \/ Probe
  \/ CheckOutput
  \/ Launch
  \/ ReadLine
  \/ Wait
  \/ Encoder
  \/ Rerun

(***************************************************************************)
(* Initial states: the directory trees, the answers of the prober and the  *)
(* behaviours of the encoder the runs are checked on.                      *)
(***************************************************************************)
\* at most this many files under input_dir
MaxFiles == 2

Entry(dir, name) == [dir |-> dir, name |-> name]
Entries ==
  { Entry(<<"a">>, <<"c", "l", "i", "p", ".", "m", "p", "4">>),
    Entry(<<"b">>, <<"c", "l", "i", "p", ".", "M", "O", "V">>),
    Entry(<<"b">>, <<"x", ".", "m", "k", "v">>),
    Entry(<<"a">>, <<"n", "o", "t", "e", "s", ".", "t", "x", "t">>) }

\* the orders a walk can yield for at most MaxFiles of the entries: no entry
\* twice, the files of one directory together
Trees ==
  UNION { { t \in [1..n -> Entries] :
              /\ \A i, j \in 1..n : i # j => t[i] # t[j]
              /\ \A i, j, k \in 1..n :
                   i < j /\ j < k /\ t[i].dir = t[k].dir => t[j].dir = t[i].dir }
          : n \in 0..MaxFiles }

\* encoder diagnostic lines
D2(k) == <<DigitChars[(k \div 10) + 1], DigitChars[(k % 10) + 1]>>
TimeLine(h, m, s, f) ==
  <<"f", "p", "s", "=", "2", "5", " ", "t", "i", "m", "e", "=">> \o D2(h) \o <<":">> \o D2(m) \o <<":">> \o D2(s)
    \o <<".">> \o D2(f) \o <<" ", "b", "i", "t", "r", "a", "t", "e", "=", "N", "/", "A">>
PlainLine == <<"S", "t", "r", "e", "a", "m", " ", "#", "0", ":", "0", " ", "-", ">", " ", "#", "0", ":", "0">>
BadLine == <<"t", BadByte>>

Err(line) == [op |-> "err", line |-> line]
Out == [op |-> "out", line |-> <<>>]
Create == [op |-> "create", line |-> <<>>]

\* ffprobe's answers
Duration(text) ==
  [rc |-> 0, stdout |-> JObj(<< <<"format", JObj(<< <<"duration", JStr(text)>> >>)>> >>)]
AnswerNonZero == [rc |-> 1, stdout |-> JInvalid]
AnswerInvalid == [rc |-> 0, stdout |-> JInvalid]
AnswerNoKey == [rc |-> 0, stdout |-> JObj(<< <<"format", JObj(<<>>)>> >>)]
AnswerNotANumber == Duration(<<"N", "/", "A">>)
AnswerNull ==
  [rc |-> 0, stdout |-> JObj(<< <<"format", JObj(<< <<"duration", JNull>> >>)>> >>)]
AnswerList == [rc |-> 0, stdout |-> JList]
AnswerZero == Duration(<<"0", ".", "0", "0", "0", "0", "0", "0">>)

Media(answer, script, rc) == [answer |-> answer, script |-> script, rc |-> rc]
NoMedia == Media(AnswerInvalid, <<>>, 1)

\* files the prober fails on, or reports a zero duration for
ProbeFailMedia ==
  { Media(a, <<>>, 1) :
      a \in {AnswerNonZero, AnswerInvalid, AnswerNoKey, AnswerNotANumber,
             AnswerNull, AnswerList, AnswerZero} }

D104 == Duration(<<"1", "0", "4", ".", "0", "1", "0", "0", "0", "0">>)
D120 == Duration(<<"1", "2", "0", ".", "0", "0", "0", "0", "0", "0">>)

\* files the prober knows the duration of, with what the encoder does on them
EncodeOk ==
  Media(D104, <<Create, Err(PlainLine), Err(TimeLine(0, 0, 33, 49)),
                Err(TimeLine(0, 1, 44, 1))>>, 0)
EncodeClamped ==
  Media(D120, <<Create, Err(TimeLine(0, 0, 10, 0)), Err(TimeLine(0, 0, 5, 0)),
                Err(TimeLine(0, 2, 10, 0))>>, 0)
EncodeFailNoOutput == Media(D104, <<Err(PlainLine)>>, 1)
EncodeFailPartial == Media(D120, <<Create, Err(TimeLine(0, 0, 10, 0))>>, 1)
EncodeUndecodable == Media(D120, <<Create, Err(BadLine), Err(PlainLine)>>, 0)
EncodeStdout == Media(D120, <<Out, Out, Create, Err(PlainLine)>>, 0)
\* an undecodable line before the output is opened, and a failure at the end
EncodeUndecodableFail == Media(D120, <<Err(BadLine), Create, Err(PlainLine)>>, 1)
EncodeMedia ==
  { EncodeOk, EncodeClamped, EncodeFailNoOutput, EncodeFailPartial,
    EncodeUndecodable, EncodeStdout, EncodeUndecodableFail }

\* the media a smaller family of runs draws from
FewMedia == {EncodeOk, EncodeFailNoOutput, Media(AnswerNonZero, <<>>, 1)}

\* the first entry is checked on every media, the others on the few
RichChoice(entry) ==
  IF ~IsInputFile(entry.name) THEN {NoMedia}
  ELSE IF entry = Entry(<<"a">>, <<"c", "l", "i", "p", ".", "m", "p", "4">>)
       THEN ProbeFailMedia \cup EncodeMedia
       ELSE FewMedia
FewChoice(entry) ==
  IF ~IsInputFile(entry.name) THEN {NoMedia} ELSE FewMedia
Choice(rich, entry) ==
  IF rich THEN RichChoice(entry) ELSE FewChoice(entry)

\* one media per file of the tree
MediaOf(tree, rich) ==
  { m \in [1..Len(tree) -> ProbeFailMedia \cup EncodeMedia \cup {NoMedia}] :
      \A i \in 1..Len(tree) : m[i] \in Choice(rich, tree[i]) }

World(tree, media, ffmpeg, ffprobe, gpu, isdir) ==
  [tree |-> tree, media |-> media, ffmpeg_found |-> ffmpeg,
   ffprobe_found |-> ffprobe, use_gpu |-> gpu, input_is_dir |-> isdir]

\* out_dir before the first run: absent, or holding an output of an earlier
\* software-mode run on clip.*
NoDir == [exists |-> FALSE, files |-> <<>>]
OldDir ==
  [exists |-> TRUE,
   files |-> (<<"c", "l", "i", "p", "_", "C", "R", "F", "2", "0", ".", "m", "p", "4">> :> [run |-> 0, idx |-> 0])]

Setting(ffmpeg, ffprobe, gpu, dir) ==
  [ffmpeg |-> ffmpeg, ffprobe |-> ffprobe, gpu |-> gpu, dir |-> dir]
Nominal == Setting(TRUE, TRUE, FALSE, NoDir)
Settings ==
  { Nominal,
    Setting(TRUE, TRUE, FALSE, OldDir),
    Setting(TRUE, TRUE, TRUE, NoDir),
    Setting(TRUE, TRUE, TRUE, OldDir),
    Setting(FALSE, TRUE, FALSE, NoDir),
    Setting(TRUE, FALSE, FALSE, NoDir),
    Setting(FALSE, FALSE, TRUE, NoDir) }

Starts(rich, settings) ==
  UNION { { [world |-> World(t, m, e.ffmpeg, e.ffprobe, e.gpu, TRUE), dir |-> e.dir] :
              m \in MediaOf(t, rich), e \in settings }
          : t \in Trees }

\* input_path names no directory: there is nothing to walk
NotADirectory ==
  { [world |-> World(<<>>, <<>>, TRUE, TRUE, g, FALSE), dir |-> NoDir] :
      g \in BOOLEAN }

InitWith(starts) ==
  /\ \E s \in starts : world = s.world /\ out_dir = s.dir
  /\ pc = "start"
  /\ idx = 1
  /\ run = 1
  /\ total_duration = FZero
  /\ pbar_n = FZero
  /\ full_stderr = <<>>
  /\ shown = <<>>
  /\ procs = <<>>
  /\ log = <<>>
  /\ events = <<>>
  /\ seen_out = DOMAIN out_dir.files
  /\ exit_status = -1

Init ==
  InitWith(Starts(TRUE, {Nominal}) \cup Starts(FALSE, Settings)
             \cup NotADirectory)

Spec == Init /\ [][Next]_vars

(***************************************************************************)
(* Runs for the conversion of time stamps: one file, long enough for no    *)
(* time stamp to be clamped, whose encoder writes one progress line.       *)
(***************************************************************************)
TimeFieldValues == {0, 1, 7, 33, 59, 99}
DLong == Duration(<<"4", "0", "0", "0", "0", "0", ".", "0">>)
TimeStarts ==
  { [world |-> World(<<Entry(<<"a">>, <<"c", "l", "i", "p", ".", "m", "p", "4">>)>>,
                     <<Media(DLong, <<Create, Err(TimeLine(h, m, s, f))>>, 0)>>,
                     TRUE, TRUE, FALSE, TRUE),
     dir |-> NoDir] :
      h \in TimeFieldValues, m \in TimeFieldValues,
      s \in TimeFieldValues, f \in TimeFieldValues }
InitTime == InitWith(TimeStarts)
SpecTime == InitTime /\ [][Next]_vars

(***************************************************************************)
(* Vocabulary of the properties.                                           *)
(***************************************************************************)
\* the positions of the files the walk keeps
InputIdx == {i \in 1..Len(world.tree) : IsInputFile(world.tree[i].name)}

\* the events of kind ev of run r for the file at position i
EventsOf(ev, r, i) ==
  {k \in 1..Len(events) :
     events[k].ev = ev /\ events[k].run = r /\ events[k].idx = i}

\* run r printed a line with this tag for the file at position i
Printed(tag, r, i) ==
  \E k \in 1..Len(log) : log[k].tag = tag /\ log[k].run = r /\ log[k].idx = i

\* a JSON object with a member of this name, and that member
JHas(v, key) == v.t = "obj" /\ \E j \in 1..Len(v.v) : v.v[j][1] = key
JGet(v, key) ==
  v.v[CHOOSE j \in 1..Len(v.v) :
        v.v[j][1] = key /\ \A l \in (j+1)..Len(v.v) : v.v[l][1] # key][2]

\* what ffprobe says of the file at position i gives no duration: it is not
\* found, exits non-zero, or prints something other than
\* {"format": {"duration": "<number>"}}
ProbeFails(i) ==
  LET a == world.media[i].answer IN
  \/ ~world.ffprobe_found
  \/ a.rc # 0
  \/ ~JHas(a.stdout, "format")
  \/ ~JHas(JGet(a.stdout, "format"), "duration")
  \/ LET d == JGet(JGet(a.stdout, "format"), "duration")
     IN  d.t # "str" \/ ~PyFloat(d.v).ok

\* ffprobe gives a duration for the file at position i, and it is not zero
DurationKnown(i) ==
  /\ ~ProbeFails(i)
  /\ PyFloat(JGet(JGet(world.media[i].answer.stdout, "format"), "duration").v).val
       # FZero

OutputOf(i) == output_filename(world.tree[i].name, world.use_gpu)

(***************************************************************************)
(* C1.  A file whose duration probe fails never has the encoder launched:  *)
(* every encoder launch for a file comes after a probe of that file, in    *)
(* the same run, and the prober gave a duration for it.                    *)
(***************************************************************************)
C1_SpawnOnlyAfterKnownDuration ==
  \A k \in 1..Len(events) :
     events[k].ev = "spawn" =>
       /\ ~ProbeFails(events[k].idx)
       /\ \E j \in 1..(k-1) :
            /\ events[j].ev = "probe"
            /\ events[j].run = events[k].run
            /\ events[j].idx = events[k].idx

\* one file's probe failed and it was skipped, another file's encoder ran
C1_Witness ==
  /\ \E i \in InputIdx :
        ProbeFails(i) /\ EventsOf("probe", 1, i) # {} /\ Printed("[SKIP] unknown", 1, i)
  /\ \E i \in InputIdx : EventsOf("spawn", 1, i) # {}

(***************************************************************************)
(* C5.  When the output file <stem>_<tag>.mp4 is in out_dir at the         *)
(* existence check of a job, the job prints its [SKIP] and no encoder is   *)
(* launched for that file in the run.                                      *)
(***************************************************************************)
C5_ExistingOutputSkipped ==
  \A k \in 1..Len(events) :
     events[k].ev = "check" /\ events[k].info = "present" =>
       /\ Printed("[SKIP] exists", events[k].run, events[k].idx)
       /\ ~Printed("[START]", events[k].run, events[k].idx)
       /\ EventsOf("spawn", events[k].run, events[k].idx) = {}
       /\ EventsOf("notfound", events[k].run, events[k].idx) = {}

\* in the first run, a job found the output of an earlier run and returned
C5_Witness ==
  \E i \in InputIdx :
     /\ \E k \in EventsOf("check", 1, i) : events[k].info = "present"
     /\ idx > i
     /\ out_dir.files[output_filename(world.tree[i].name, world.use_gpu)].run = 0

(***************************************************************************)
(* C2.  While a job drains the diagnostic stream, 0 <= pbar.n <=           *)
(* total_duration, and the values pbar.n takes over the stream never       *)
(* decrease.                                                               *)
(***************************************************************************)
C2_ProgressWithinTotal ==
  pc \in {"drain", "wait"} =>
    /\ FLeq(FZero, pbar_n)
    /\ FLeq(pbar_n, total_duration)
    /\ \A k \in 1..Len(shown) :
         /\ FLeq(shown[k], total_duration)
         /\ k > 1 => FLeq(shown[k-1], shown[k])

(***************************************************************************)
(* C3.  After any prefix of the diagnostic stream, pbar.n is the smaller   *)
(* of total_duration and the largest time a line of the prefix carried,    *)
(* or 0 when no line carried one.                                          *)
(***************************************************************************)
\* the largest time among the lines that carry one, 0.0 without any
RECURSIVE MaxElapsed(_)
MaxElapsed(lines) ==
  IF lines = <<>> THEN FZero
  ELSE LET before == MaxElapsed(SubSeq(lines, 1, Len(lines) - 1))
           match == TIME_REGEX(lines[Len(lines)])
           here == IF match.found THEN time_to_seconds(TimeString(match.group))
                   ELSE FZero
       IN  IF FLess(before, here) THEN here ELSE before

C3_ProgressIsClampedMaximum ==
  pc \in {"drain", "wait"} =>
    pbar_n = FMin(MaxElapsed(full_stderr), total_duration)

(***************************************************************************)
(* C4.  As claimed: once a run has completed, running the same command     *)
(* again launches no encoder, and every file the walk keeps is skipped by  *)
(* the existence check.                                                    *)
(***************************************************************************)
C4_RerunLaunchesNothing ==
  run > 1 /\ Printed("--- complete", run - 1, 0) =>
    /\ \A i \in InputIdx : EventsOf("spawn", run, i) = {}
    /\ pc = "done" => \A i \in InputIdx : Printed("[SKIP] exists", run, i)

(***************************************************************************)
(* C4, amended.  A later run launches the encoder only for files whose     *)
(* output was not in out_dir when that run began, and every file whose     *)
(* duration the prober gives (not zero) and whose output was there is      *)
(* skipped by the existence check.                                         *)
(***************************************************************************)
C4_RerunEncodesOnlyMissingOutputs ==
  run > 1 =>
    \A i \in InputIdx :
       /\ EventsOf("spawn", run, i) # {} => OutputOf(i) \notin seen_out
       /\ idx > i /\ DurationKnown(i) /\ OutputOf(i) \in seen_out
            => Printed("[SKIP] exists", run, i)

\* the second run is over: it skipped a file the first run encoded, and
\* encoded again a file whose first encoding failed and left nothing
C4_Witness ==
  /\ run = 2
  /\ pc = "done"
  /\ \E i \in InputIdx :
        Printed("[SUCCESS]", 1, i) /\ Printed("[SKIP] exists", 2, i)
  /\ \E i \in InputIdx :
        Printed("[ERROR] failed", 1, i) /\ EventsOf("spawn", 2, i) # {}

(***************************************************************************)
(* C6.  When input_dir is a directory, every file the walk keeps has had   *)
(* convert_video_file called for it exactly once when the run is over,     *)
(* whatever happened to the files before it.                               *)
(***************************************************************************)
C6_EveryInputAttemptedOnce ==
  ParentGone /\ world.input_is_dir =>
    \A i \in InputIdx : Cardinality(EventsOf("call", run, i)) = 1

(***************************************************************************)
(* C7.  Once a launch finds no encoder executable, the run issues no       *)
(* further job (no later call, probe or launch) and the error is printed   *)
(* once.                                                                   *)
(***************************************************************************)
C7_EncoderNotFoundStopsRun ==
  /\ \A j, k \in 1..Len(events) :
        j < k /\ events[j].ev = "notfound" /\ events[k].run = events[j].run
          => events[k].ev \notin {"call", "probe", "check", "spawn", "notfound"}
  /\ \A j, k \in 1..Len(log) :
        log[j].tag = "[FATAL ERROR] ffmpeg" /\ log[k].tag = "[FATAL ERROR] ffmpeg"
          /\ log[j].run = log[k].run => j = k

(***************************************************************************)
(* C8.  A run in which a launch finds no encoder executable has printed no *)
(* line about a file, and ends with a non-zero exit status.                *)
(***************************************************************************)
C8_NoFileLineWithoutEncoder ==
  (\E i \in InputIdx : EventsOf("notfound", run, i) # {}) =>
    /\ \A k \in 1..Len(log) : log[k].run = run => log[k].idx = 0
    /\ ParentGone => exit_status # 0

(***************************************************************************)
(* C9.  Every failure of the prober makes the job print its [SKIP] and     *)
(* return; no exception leaves get_duration.                               *)
(***************************************************************************)
C9_ProbeFailureSkipsFile ==
  \A k \in 1..Len(events) :
     events[k].ev = "probe" /\ ProbeFails(events[k].idx) =>
       /\ Printed("[SKIP] unknown", events[k].run, events[k].idx)
       /\ ~(pc = "crashed" /\ idx = events[k].idx /\ run = events[k].run)

(***************************************************************************)
(* C10.  As claimed: after the first probe that finds no prober            *)
(* executable, the run probes and transcodes no further file.              *)
(***************************************************************************)
C10_ProberNotFoundStopsRun ==
  \A j, k \in 1..Len(events) :
     j < k /\ events[j].ev = "probe" /\ events[j].info = "FileNotFoundError"
       /\ events[k].run = events[j].run
       => events[k].ev \notin {"probe", "spawn"}

(***************************************************************************)
(* C10, amended.  When the prober executable is not found the run is not   *)
(* aborted: every file the walk keeps is probed once, is skipped for its   *)
(* unknown duration, and none is transcoded.                               *)
(***************************************************************************)
C10_ProberNotFoundSkipsEveryFile ==
  ~world.ffprobe_found =>
    /\ pc # "crashed"
    /\ exit_status \in {-1, 0}
    /\ \A k \in 1..Len(events) : events[k].ev \in {"call", "probe"}
    /\ \A i \in InputIdx :
         (idx > i \/ pc = "done") <=>
            /\ Cardinality(EventsOf("probe", run, i)) = 1
            /\ Printed("[SKIP] unknown", run, i)
    /\ pc = "done" => idx = Len(world.tree) + 1

\* a run without prober is over and has gone through two files
C10_Witness ==
  /\ ~world.ffprobe_found
  /\ pc = "done"
  /\ Cardinality(InputIdx) >= 2
  /\ \A i \in InputIdx : Printed("[SKIP] unknown", run, i)

(***************************************************************************)
(* C11.  At most one encoder subprocess is alive at any time: the encoder  *)
(* of a job is launched only when those of the jobs before it have exited. *)
(***************************************************************************)
C11_OneEncoderAlive ==
  Cardinality({i \in DOMAIN procs : procs[i].state = "running"}) <= 1

\* the places of an argument list: the codec name follows "-c:v", the
\* quality flag and its value follow it, the extra options follow the preset
CodecAt == 7
QualityAt == {8, 9}
ExtraAt(use_gpu) == 12..(11 + Len(Profile(use_gpu).EXTRA_OPTIONS))

\* an argument list without the arguments at the places in drop
Without(cmd, drop) ==
  LET F[k \in 0..Len(cmd)] ==
        IF k = 0 THEN <<>>
        ELSE IF k \in drop THEN F[k - 1] ELSE Append(F[k - 1], cmd[k])
  IN  F[Len(cmd)]

ModeArgs(use_gpu) == {CodecAt} \cup QualityAt \cup ExtraAt(use_gpu)

(***************************************************************************)
(* C12.  As claimed: for every file, the hardware and the software         *)
(* argument lists are the same once the codec name, the quality flag and   *)
(* its value, and the extra rate-control flags are taken out of each; the  *)
(* output path is among what is the same.                                  *)
(***************************************************************************)
C12_ModesDifferInCodecQualityExtra ==
  \A i \in InputIdx :
     Without(Command(world.tree[i], TRUE), ModeArgs(TRUE))
       = Without(Command(world.tree[i], FALSE), ModeArgs(FALSE))

(***************************************************************************)
(* C12, amended.  The two argument lists differ in the codec name, the     *)
(* quality flag and value, the extra rate-control flags (hardware mode     *)
(* only) and the output path, which carries the mode's tag; every other    *)
(* argument is the same, and the list a failed job prints is the one of    *)
(* the run's mode.                                                         *)
(***************************************************************************)
C12_ModesDifferAlsoInOutputPath ==
  \A i \in InputIdx :
     LET hw == Command(world.tree[i], TRUE)
         sw == Command(world.tree[i], FALSE)
     IN  /\ Without(hw, ModeArgs(TRUE) \cup {Len(hw)})
              = Without(sw, ModeArgs(FALSE) \cup {Len(sw)})
         /\ hw[CodecAt] # sw[CodecAt]
         /\ <<hw[8], hw[9]>> # <<sw[8], sw[9]>>
         /\ ExtraAt(FALSE) = {} /\ ExtraAt(TRUE) # {}
         /\ hw[Len(hw)] # sw[Len(sw)]
         /\ \A k \in 1..Len(log) :
               log[k].tag = "command" /\ log[k].idx = i =>
                 log[k].text = IF world.use_gpu THEN hw ELSE sw

\* a failed job of a hardware-mode run has printed its argument list
C12_Witness ==
  /\ world.use_gpu
  /\ \E k \in 1..Len(log) :
        /\ log[k].tag = "command"
        /\ Len(log[k].text) = 27
        /\ log[k].text[CodecAt] = Lit("hevc_nvenc")

(***************************************************************************)
(* C13.  When input_dir is not a directory the run prints its fatal error  *)
(* and nothing else: nothing is enumerated, no prober or encoder is run,   *)
(* and the output directory is not created.                                *)
(***************************************************************************)
C13_NotADirectoryFailsFast ==
  ~world.input_is_dir =>
    /\ pc \in {"start", "done"}
    /\ idx = 1
    /\ events = <<>>
    /\ procs = <<>>
    /\ ~out_dir.exists /\ DOMAIN out_dir.files = {}
    /\ \A k \in 1..Len(log) : log[k].tag = "[FATAL ERROR] input"

\* the run on a path that is no directory is over
C13_Witness ==
  /\ ~world.input_is_dir
  /\ pc = "done"
  /\ \E k \in 1..Len(log) : log[k].tag = "[FATAL ERROR] input" /\ log[k].run = run

\* a letter or digit in either case
SameLetter(ch, lower) ==
  \/ ch = lower
  \/ \E n \in 1..Len(LowerChars) : LowerChars[n] = lower /\ UpperChars[n] = ch

\* the name ends with a dot and mov, mp4, avi or mkv in any mix of cases
HasVideoExtension(name) ==
  /\ Len(name) >= 4
  /\ name[Len(name) - 3] = "."
  /\ \E w \in { <<"m", "o", "v">>, <<"m", "p", "4">>, <<"a", "v", "i">>,
                <<"m", "k", "v">> } :
        \A j \in 1..3 : SameLetter(name[Len(name) - 3 + j], w[j])

\* <stem>_CRF20.mp4 for a name <stem>.<ext> with a three-letter extension
SoftwareOutputName(name) ==
  SubSeq(name, 1, Len(name) - 4)
    \o <<"_", "C", "R", "F", "2", "0", ".", "m", "p", "4">>

(***************************************************************************)
(* C14.  The prober and the encoder are run only for files whose name      *)
(* ends, in any case, with .mov, .mp4, .avi or .mkv, and every such file   *)
(* the walk has passed was attempted; a job that succeeded in software     *)
(* mode for <stem>.<ext> gave the encoder the path out/<stem>_CRF20.mp4    *)
(* and the file of that name is in the output directory.                   *)
(***************************************************************************)
C14_OnlyVideoExtensionsAttempted ==
  /\ \A k \in 1..Len(events) :
        HasVideoExtension(world.tree[events[k].idx].name)
  /\ \A i \in DOMAIN procs : HasVideoExtension(world.tree[i].name)
  /\ \A i \in 1..Len(world.tree) :
        HasVideoExtension(world.tree[i].name) /\ (idx > i \/ pc = "done")
          => EventsOf("call", run, i) # {}
  /\ \A k \in 1..Len(log) :
        log[k].tag = "[SUCCESS]" /\ ~world.use_gpu =>
          LET entry == world.tree[log[k].idx]
              cmd == Command(entry, FALSE)
          IN  /\ log[k].text = SoftwareOutputName(entry.name)
              /\ cmd[Len(cmd)] = Txt(<<"o", "u", "t", "/">> \o SoftwareOutputName(entry.name))
              /\ SoftwareOutputName(entry.name) \in DOMAIN out_dir.files

\* a software-mode run is over: it encoded clip.MOV into clip_CRF20.mp4 and
\* walked past notes.txt
C14_Witness ==
  /\ pc = "done"
  /\ ~world.use_gpu
  /\ \E i, j \in 1..Len(world.tree) :
        /\ world.tree[i].name = <<"c", "l", "i", "p", ".", "M", "O", "V">>
        /\ Printed("[SUCCESS]", run, i)
        /\ out_dir.files[<<"c", "l", "i", "p", "_", "C", "R", "F", "2", "0", ".", "m", "p", "4">>]
             = [run |-> run, idx |-> i]
        /\ world.tree[j].name = <<"n", "o", "t", "e", "s", ".", "t", "x", "t">>

\* the diagnostic lines a script writes, in order
ErrLines(script) ==
  LET F[k \in 0..Len(script)] ==
        IF k = 0 THEN <<>>
        ELSE IF script[k].op = "err" THEN Append(F[k - 1], script[k].line)
             ELSE F[k - 1]
  IN  F[Len(script)]

(***************************************************************************)
(* C15.  When a job stands at process.wait() its encoder has exited, the   *)
(* diagnostic pipe is empty and every line the encoder wrote has been      *)
(* read; a job of this run that printed [SUCCESS] or its failure has an    *)
(* encoder that ran to its end and left nothing unread, and printed        *)
(* [SUCCESS] exactly when the exit code is 0.                              *)
(***************************************************************************)
C15_StatusReadAfterEndOfStream ==
  /\ pc = "wait" =>
       /\ procs[idx].state = "exited"
       /\ procs[idx].err = <<>>
       /\ full_stderr = ErrLines(CurMedia.script)
  /\ \A k \in 1..Len(log) :
        log[k].run = run /\ log[k].tag \in {"[SUCCESS]", "[ERROR] failed"} =>
          LET i == log[k].idx IN
          /\ i \in DOMAIN procs
          /\ procs[i].state = "exited"
          /\ procs[i].err = <<>>
          /\ procs[i].pos = Len(world.media[i].script) + 1
          /\ (log[k].tag = "[SUCCESS]") <=> (world.media[i].rc = 0)

\* one job of the run succeeded after three diagnostic lines and another
\* failed
C15_Witness ==
  \E i, j \in InputIdx :
     /\ Printed("[SUCCESS]", run, i)
     /\ Len(ErrLines(world.media[i].script)) = 3
     /\ Printed("[ERROR] failed", run, j)

(***************************************************************************)
(* C16.  A job that has returned and whose encoder has exited with a       *)
(* non-zero code has printed the argument list and, as transcript, every   *)
(* diagnostic line the encoder wrote, in order; a job whose encoder exits  *)
(* with code 0 prints no transcript.                                       *)
(***************************************************************************)
C16_FailureLogsCommandAndTranscript ==
  \A i \in DOMAIN procs :
     (i < idx \/ pc = "done") /\ procs[i].state = "exited" =>
       IF world.media[i].rc # 0
       THEN /\ \E k \in 1..Len(log) :
                  /\ log[k].run = run /\ log[k].idx = i /\ log[k].tag = "command"
                  /\ log[k].text = Command(world.tree[i], world.use_gpu)
            /\ \E k \in 1..Len(log) :
                  /\ log[k].run = run /\ log[k].idx = i /\ log[k].tag = "stderr"
                  /\ log[k].text = ErrLines(world.media[i].script)
       ELSE ~Printed("stderr", run, i)

(***************************************************************************)
(* C17.  A job that has launched its encoder is never stuck: while it      *)
(* reads the diagnostic stream or waits for the exit, the job or its       *)
(* encoder can take a step.                                                *)
(***************************************************************************)
C17_JobAndEncoderNeverBlocked ==
  pc \in {"drain", "wait"} =>
    ENABLED ReadLine \/ ENABLED Wait \/ ENABLED EncoderStep(idx)

\* the fields HH, MM, SS, ff of a progress line "fps=25 time=HH:MM:SS.ff ..."
\* in hundredths of a second
LineHundredths(line) ==
  LET n(p) == 10 * DigitVal(line[p]) + DigitVal(line[p + 1])
  IN  360000 * n(13) + 6000 * n(16) + 100 * n(19) + n(22)

\* the float x, in hundredths, is k to less than 2^-20
IsHundredths(x, k) ==
  LET a == BigMulSmall(x, 100)
      b == FromInt(k)
      d == IF BigLess(a, b) THEN BigSub(b, a) ELSE BigSub(a, b)
  IN  BigLess(d, BigPow2(FracBits - 20))

(***************************************************************************)
(* C18.  After a line with time=HH:MM:SS.ff has been read, with a total    *)
(* duration above it, the progress is, in hundredths of a second,          *)
(* 360000*HH + 6000*MM + 100*SS + ff, and it is the one value shown.       *)
(***************************************************************************)
C18_TimeInHundredths ==
  pc \in {"drain", "wait"} /\ full_stderr # <<>> =>
    /\ IsHundredths(pbar_n, LineHundredths(full_stderr[1]))
    /\ shown = IF LineHundredths(full_stderr[1]) = 0 THEN <<>> ELSE <<pbar_n>>

\* the line time=99:59:07.01 has been read
C18_Witness ==
  /\ pc = "wait"
  /\ full_stderr = <<TimeLine(99, 59, 7, 1)>>
  /\ LineHundredths(full_stderr[1]) = 35994701
  /\ pbar_n # FZero

(***************************************************************************)
(* C19.  The steps of a job that ends skipped for its unknown duration     *)
(* leave the output directory as it is, not created if it was absent; the  *)
(* step that skips a job for its existing output leaves the files of the   *)
(* output directory and their contents as they are, the directory being    *)
(* there afterwards.                                                       *)
(***************************************************************************)
C19_SkippedJobLeavesOutputs ==
  [][ /\ (pc = "convert" /\ pc' = "probe") => out_dir' = out_dir
      /\ (pc = "probe" /\ pc' = "walk") => out_dir' = out_dir
      /\ (pc = "exists" /\ pc' = "walk") =>
            /\ out_dir'.files = out_dir.files
            /\ out_dir'.exists ]_vars

\* a run is over in which one job was skipped for its unknown duration and
\* one for its existing output, and the output directory holds what it held
C19_Witness ==
  /\ pc = "done"
  /\ \E i, j \in InputIdx :
        Printed("[SKIP] unknown", run, i) /\ Printed("[SKIP] exists", run, j)
  /\ out_dir = OldDir
  /\ seen_out = DOMAIN OldDir.files

\* the encoder started in this run for the file at position i has opened
\* its output file
Created(i) ==
  \E p \in 1..(procs[i].pos - 1) : world.media[i].script[p].op = "create"

\* two names <stem>.<ext> with three-letter extensions and the same stem
SameStem(a, b) == SubSeq(a, 1, Len(a) - 4) = SubSeq(b, 1, Len(b) - 4)

(***************************************************************************)
(* C20.  Two files the walk keeps that have the same stem have the same    *)
(* output name, whatever their directory and extension, and in one run no  *)
(* two encoders write the same output file.                                *)
(***************************************************************************)
C20_OutputWrittenByOneEncoder ==
  /\ \A i, j \in InputIdx :
        SameStem(world.tree[i].name, world.tree[j].name) <=> OutputOf(i) = OutputOf(j)
  /\ \A i, j \in DOMAIN procs :
        i # j /\ OutputOf(i) = OutputOf(j) => ~(Created(i) /\ Created(j))

====
